---- MODULE Spec2Model ----
(***************************************************************************)
(* Model of riemann_surface_visualizer.py: plot_riemann(order, theta_max,  *)
(* sheets, title) and the __main__ driver loop.                            *)
(*                                                                         *)
(* Arithmetic is exact fixed point.  Angles are kept in ticks: one tick is *)
(* 1/Den milliradian with Den = NTh - 1, so that the linspace sample       *)
(* th[i] = i * theta_max / (NTh - 1) is the integer i * theta_max.         *)
(* Radii are kept in units of 1/(100 * (NR - 1)).  A quotient the code     *)
(* never compares (H = TH / order) is kept as an unevaluated fraction.     *)
(* cos and sin are uninterpreted: X and Y are symbolic terms.              *)
(***************************************************************************)
EXTENDS Integers, Sequences, FiniteSets, TLC

\* ------------------------------------------------------------------ bounds
\* number of angle samples of the grid (1600 in the code, scaled down)
NTh == 33
\* number of radius samples of the grid (160 in the code, scaled down)
NR == 2
\* largest ordinary order / sheets argument of a direct call
MaxOrder == 4
MaxSheets == 4
\* explicit theta_max arguments reach MaxTurns full turns
MaxTurns == 3

\* --------------------------------------------------------- program constants
\* 2 * np.pi in milliradians
TwoPi == 6283
\* gap = 1e-3 rad, in milliradians
gap == 1
\* the per-sheet offset 0.03, in milliradians of height
Offset == 30
\* r = np.linspace(0.15, 2.0, ...), in hundredths
RMin == 15
RMax == 200

\* ticks per milliradian: the denominator of the linspace step
Den == NTh - 1

\* a parameter left at its default None
None == <<>>
\* the masked-out value np.nan
NaN == [nan |-> TRUE]
\* title="" (the default of plot_riemann)
NoTitle == [roots |-> 0, order |-> 0]
\* no figure object
NoFig == [open |-> FALSE]

VARIABLES
    mode,       \* "main": run as a program; "import": plot_riemann called directly
    pc,         \* position of control
    drv,        \* index of the driver loop over (2, 4, 8, 16)
    calls,      \* the calls of plot_riemann made so far, with their arguments
    order, theta_max, sheets, title,   \* parameters / locals of the running call
    r, th,      \* radius and angle samples
    X, Y, H,    \* mesh fields
    sheet_idx,  \* mesh field: which sheet
    fig,        \* the figure of the running call
    it,         \* position of the for loop in range(sheets - 1, -1, -1)
    patches,    \* the surface patches submitted to ax.plot_surface, in order
    shown,      \* the figures displayed by plt.show(), in order
    err         \* the exception that ended the program, or "none"

vars == <<mode, pc, drv, calls, order, theta_max, sheets, title, r, th, X, Y, H,
          sheet_idx, fig, it, patches, shown, err>>

\* ------------------------------------------------------------ pure helpers
\* the mesh of np.meshgrid(r, th): rows are angle samples, columns radius samples
Mesh == (1..NTh) \X (1..NR)

\* Python / numpy remainder: sign of the divisor; numpy returns 0 for a zero divisor
PyMod(a, b) ==
    IF b = 0 THEN 0
    ELSE IF b > 0 THEN a % b
    ELSE -((-a) % (-b))

\* np.linspace(0.0, theta_max, NTh), in ticks
LinspaceTheta(tmax) == [i \in 1..NTh |-> (i - 1) * tmax]

\* np.linspace(0.15, 2.0, NR), in units of 1/(100*(NR-1))
LinspaceR == [j \in 1..NR |-> RMin * (NR - 1) + (j - 1) * (RMax - RMin)]

\* mutant of DefaultThetaMax: one turn whatever the order
DefaultThetaMaxOneTurn(ord) == TwoPi

\* theta_max default: 2 * np.pi * order
DefaultThetaMax(ord) == TwoPi * ord

\* sheets default: order
DefaultSheets(ord) == ord

\* mutant of SheetIndex: the modulo is forgotten
SheetIndexNoMod(theta, nsheets) == theta \div (TwoPi * Den)

\* (TH // (2 * np.pi)).astype(int) % sheets, for one angle in ticks
SheetIndex(theta, nsheets) == PyMod(theta \div (TwoPi * Den), nsheets)

\* mutant of lo: the gap is forgotten
loNoGap(s) == TwoPi * s * Den

\* lo = 2 * np.pi * s + gap, in ticks
lo(s) == (TwoPi * s + gap) * Den

\* hi = 2 * np.pi * (s + 1) - gap, in ticks
hi(s) == (TwoPi * (s + 1) - gap) * Den

\* mutant of InSheet: everything above the lower edge of the band is selected
InSheetAboveLo(idx, theta, s) == theta > lo(s)

\* mutant of InSheet: the band test is forgotten, the sheet index alone selects
InSheetIndexOnly(idx, theta, s) == idx = s

\* in_sheet = (sheet_idx == s) & (TH > lo) & (TH < hi), for one mesh point
InSheet(idx, theta, s) == idx = s /\ theta > lo(s) /\ theta < hi(s)

\* mutant of HeightWithOffset: the offset is forgotten
HeightNoOffset(h, s) == h

\* H + 0.03 * s, for one mesh point
HeightWithOffset(h, s) == [h EXCEPT !.off = Offset * s]

\* mutant of SheetRange: ascending, range(sheets)
SheetRangeAscending(nsheets) ==
    [k \in 1..(IF nsheets > 0 THEN nsheets ELSE 0) |-> k - 1]

\* range(sheets - 1, -1, -1) as a sequence
SheetRange(nsheets) ==
    [k \in 1..(IF nsheets > 0 THEN nsheets ELSE 0) |-> nsheets - k]

\* mutant of Log2: half the order instead of its logarithm
Log2Half(n) == n \div 2

\* int(np.log2(order)) for order >= 1
RECURSIVE Log2(_)
Log2(n) == IF n <= 1 THEN 0 ELSE 1 + Log2(n \div 2)

\* the tuple (2, 4, 8, 16) of the driver
DriverOrders == <<2, 4, 8, 16>>

\* ttl = f"Riemann surface of {root_sign}z ({order} sheets)"
DriverTitle(ord) == [roots |-> Log2(ord), order |-> ord]

\* ------------------------------------------------------ inputs of a direct call
OrderArgs == (-1..MaxOrder) \cup {NTh - 1}
SheetsArgs == -1..MaxSheets
ThetaArgs == {t \in {TwoPi * k + d : k \in 0..MaxTurns, d \in -2..2} : t > 0}
                \cup {TwoPi \div 2}

\* ------------------------------------------------------------------- Init
Init ==
    /\ mode \in {"main", "import"}
    /\ pc = "idle"
    /\ drv = 1
    /\ calls = <<>>
    /\ order = 0 /\ theta_max = 0 /\ sheets = 0 /\ title = NoTitle
    /\ r = <<>> /\ th = <<>>
    /\ X = <<>> /\ Y = <<>> /\ H = <<>>
    /\ sheet_idx = <<>>
    /\ fig = NoFig
    /\ it = 0
    /\ patches = <<>>
    /\ shown = <<>>
    /\ err = "none"

\* ----------------------------------------------------------------- actions
\* entry of plot_riemann: bind the parameters and apply the defaults
Enter(ord, tmax, nsheets, ttl) ==
    /\ calls' = Append(calls, [order |-> ord, theta_max |-> tmax,
                               sheets |-> nsheets, title |-> ttl])
    /\ order' = ord
    /\ theta_max' = IF tmax = None THEN DefaultThetaMax(ord) ELSE tmax[1]
    /\ sheets' = IF nsheets = None THEN DefaultSheets(ord) ELSE nsheets[1]
    /\ title' = ttl
    /\ pc' = "grid"
    /\ UNCHANGED <<mode, drv, r, th, X, Y, H, sheet_idx, fig, it, patches, shown, err>>

\* one iteration of the driver loop, up to the call of plot_riemann
DriverCall ==
    /\ mode = "main" /\ pc = "idle" /\ drv <= Len(DriverOrders)
    /\ Enter(DriverOrders[drv], None, None, DriverTitle(DriverOrders[drv]))

\* a direct call of plot_riemann by an importing program
DirectCall ==
    /\ mode = "import" /\ pc = "idle" /\ calls = <<>>
    /\ \E ord \in OrderArgs :
       \E tmax \in {None} \cup {<<t>> : t \in ThetaArgs} :
       \E nsheets \in {None} \cup {<<n>> : n \in SheetsArgs} :
          Enter(ord, tmax, nsheets, NoTitle)

\* r, th = linspace; R, TH = meshgrid
Grid ==
    /\ pc = "grid"
    /\ r' = LinspaceR
    /\ th' = LinspaceTheta(theta_max)
    /\ pc' = "transform"
    /\ UNCHANGED <<mode, drv, calls, order, theta_max, sheets, title, X, Y, H,
                   sheet_idx, fig, it, patches, shown, err>>

\* X = R * cos(TH); Y = R * sin(TH); H = TH / order
Transform ==
    /\ pc = "transform"
    /\ X' = [p \in Mesh |-> [nan |-> FALSE, f |-> "cos", r |-> r[p[2]], th |-> th[p[1]]]]
    /\ Y' = [p \in Mesh |-> [nan |-> FALSE, f |-> "sin", r |-> r[p[2]], th |-> th[p[1]]]]
    /\ H' = [p \in Mesh |-> [nan |-> FALSE, num |-> th[p[1]], den |-> order, off |-> 0]]
    /\ pc' = "classify"
    /\ UNCHANGED <<mode, drv, calls, order, theta_max, sheets, title, r, th,
                   sheet_idx, fig, it, patches, shown, err>>

\* sheet_idx = (TH // (2 * np.pi)).astype(int) % sheets
Classify ==
    /\ pc = "classify"
    /\ sheet_idx' = [p \in Mesh |-> SheetIndex(th[p[1]], sheets)]
    /\ pc' = "figure"
    /\ UNCHANGED <<mode, drv, calls, order, theta_max, sheets, title, r, th, X, Y, H,
                   fig, it, patches, shown, err>>

\* fig = plt.figure(...); window title; ax = fig.add_subplot(...); gap = 1e-3
Figure ==
    /\ pc = "figure"
    /\ fig' = [open |-> TRUE, window |-> order, title |-> NoTitle,
               zlim |-> <<>>, patches |-> <<>>]
    /\ it' = 1
    /\ pc' = "loop"
    /\ UNCHANGED <<mode, drv, calls, order, theta_max, sheets, title, r, th, X, Y, H,
                   sheet_idx, patches, shown, err>>

\* the patch of one loop iteration: np.where(in_sheet, ., np.nan) three times
Patch(s) ==
    [s  |-> s,
     Xm |-> [p \in Mesh |-> IF InSheet(sheet_idx[p], th[p[1]], s) THEN X[p] ELSE NaN],
     Ym |-> [p \in Mesh |-> IF InSheet(sheet_idx[p], th[p[1]], s) THEN Y[p] ELSE NaN],
     Hm |-> [p \in Mesh |-> IF InSheet(sheet_idx[p], th[p[1]], s)
                             THEN HeightWithOffset(H[p], s) ELSE NaN]]

\* one iteration of for s in range(sheets - 1, -1, -1): mask and ax.plot_surface
\* (the renderer is an external library and accepts every patch)
DrawSheet ==
    /\ pc = "loop"
    /\ it <= Len(SheetRange(sheets))
    /\ patches' = Append(patches, Patch(SheetRange(sheets)[it]))
    /\ fig' = [fig EXCEPT !.patches = patches']
    /\ it' = it + 1
    /\ UNCHANGED <<mode, pc, drv, calls, order, theta_max, sheets, title, r, th,
                   X, Y, H, sheet_idx, shown, err>>

\* the program ends with an uncaught exception
Raise(e) ==
    /\ err' = e
    /\ pc' = "done"
    /\ order' = 0 /\ theta_max' = 0 /\ sheets' = 0 /\ title' = NoTitle
    /\ r' = <<>> /\ th' = <<>> /\ X' = <<>> /\ Y' = <<>> /\ H' = <<>>
    /\ sheet_idx' = <<>> /\ fig' = NoFig /\ it' = 0 /\ patches' = <<>>
    /\ UNCHANGED <<mode, drv, calls, shown>>

\* ticks, labels, title, set_zlim(0, theta_max / order + 0.1 * (sheets - 1)),
\* tight_layout; theta_max / order is a Python float division
Axes ==
    /\ pc = "loop"
    /\ it > Len(SheetRange(sheets))
    /\ IF order = 0
       THEN Raise("ZeroDivisionError")
       ELSE /\ fig' = [fig EXCEPT !.title = title,
                                  !.zlim = <<theta_max, order, sheets - 1>>]
            /\ pc' = "show"
            /\ UNCHANGED <<mode, drv, calls, order, theta_max, sheets, title, r, th,
                           X, Y, H, sheet_idx, it, patches, shown, err>>

\* plt.show()
Show ==
    /\ pc = "show"
    /\ shown' = Append(shown, fig)
    /\ pc' = "return"
    /\ UNCHANGED <<mode, drv, calls, order, theta_max, sheets, title, r, th,
                   X, Y, H, sheet_idx, fig, it, patches, err>>

\* plot_riemann returns None: its frame is discarded; the driver loop advances
Return ==
    /\ pc = "return"
    /\ order' = 0 /\ theta_max' = 0 /\ sheets' = 0 /\ title' = NoTitle
    /\ r' = <<>> /\ th' = <<>> /\ X' = <<>> /\ Y' = <<>> /\ H' = <<>>
    /\ sheet_idx' = <<>> /\ fig' = NoFig /\ it' = 0 /\ patches' = <<>>
    /\ IF mode = "main" /\ drv < Len(DriverOrders)
       THEN drv' = drv + 1 /\ pc' = "idle"
       ELSE drv' = drv /\ pc' = "done"
    /\ UNCHANGED <<mode, calls, shown, err>>

Next ==
    \/ DriverCall
    \/ DirectCall
    \/ Grid
    \/ Transform
    \/ Classify
    \/ Figure
    \/ DrawSheet
    \/ Axes
    \/ Show
    \/ Return

Spec == Init /\ [][Next]_vars


\* ===================================================== vocabulary of the claims
\* the arguments of the call that is running (or ran last)
LastCall == calls[Len(calls)]

\* the call left theta_max and sheets at their defaults
DefaultCall == Len(calls) > 0 /\ LastCall.theta_max = None /\ LastCall.sheets = None

\* positions at which sheet_idx is bound
Classified == pc \in {"figure", "loop", "show", "return"}

\* positions at which the for loop has finished
LoopDone == \/ pc = "loop" /\ it > Len(SheetRange(sheets))
            \/ pc \in {"show", "return"}

\* positions inside the for loop or after it
InLoop == pc \in {"loop", "show", "return"}

\* mesh point p is left defined (not NaN) in patch pt
Defined(pt, p) == ~pt.Hm[p].nan

\* the angle of mesh point p, in ticks
Theta(p) == th[p[1]]

\* turn numbers any angle of the model can have
Turns == 0..(NTh + MaxTurns)

\* k = floor(theta / 2pi), stated by its defining inequalities
IsFloorTurn(k, theta) == TwoPi * Den * k <= theta /\ theta < TwoPi * Den * (k + 1)

\* theta lies within gap of the boundary 2pi*k
NearBoundary(theta, k) ==
    /\ theta - TwoPi * Den * k <= gap * Den
    /\ TwoPi * Den * k - theta <= gap * Den

\* theta lies strictly inside the gap-trimmed band of sheet s
InBand(theta, s) ==
    /\ (TwoPi * s + gap) * Den < theta
    /\ theta < (TwoPi * (s + 1) - gap) * Den

\* the patches submitted so far that leave p defined
DefinedIn(p) == {a \in 1..Len(patches) : Defined(patches[a], p)}

\* ------------------------------------------------------------------ C1
\* C1: a call with order = 0 or order = -1 and theta_max, sheets at their
\* defaults ends in an error raised before the grid is allocated: no grid, no
\* figure and no patch exists on that call, and the call does not end normally.
C1Call == Len(calls) > 0 /\ LastCall.order \in {0, -1} /\ DefaultCall

C1_ErrorBeforeGrid ==
    C1Call => /\ r = <<>> /\ th = <<>>
              /\ ~fig.open
              /\ patches = <<>>
              /\ shown = <<>>
              /\ (pc = "done" => err # "none")

\* ------------------------------------------------------------------ C2
\* C2: a call with order >= 1 and an explicit sheets <= 0 is rejected at the
\* start: it ends in an error, and no sheet index is computed, no figure is
\* created, no patch is submitted and nothing is displayed.
C2Call == /\ Len(calls) > 0
          /\ LastCall.order >= 1
          /\ LastCall.sheets # None
          /\ LastCall.sheets[1] <= 0

C2_SheetsRejectedAtStart ==
    C2Call => /\ ~Classified
              /\ ~fig.open
              /\ Len(patches) = 0
              /\ Len(shown) = 0
              /\ (pc = "done" => err # "none")

\* ------------------------------------------------------------------ C3
\* C3: for order >= 1 and sheets >= 1 the sheet index of every angle sample
\* lies in [0, sheets) and is congruent modulo sheets to floor(theta / 2pi),
\* also when theta_max exceeds 2pi*sheets and at the last sample theta_max.
C3_SheetIndexIsFloorMod ==
    (Classified /\ order >= 1 /\ sheets >= 1) =>
        \A p \in Mesh :
            /\ sheet_idx[p] \in 0..(sheets - 1)
            /\ \E k \in Turns :
                  /\ IsFloorTurn(k, Theta(p))
                  /\ \E q \in Turns : k = q * sheets + sheet_idx[p]

\* a call whose sweep exceeds 2pi*sheets, at the last sample theta = theta_max,
\* which lies at least `sheets` turns up and is classified into sheet 0
C3_Witness ==
    /\ Classified /\ order >= 1 /\ sheets >= 2
    /\ theta_max > TwoPi * sheets
    /\ th[NTh] = theta_max * Den
    /\ th[NTh] >= TwoPi * Den * sheets
    /\ sheet_idx[<<NTh, 1>>] = 0

\* ------------------------------------------------------------------ C4
\* C4: for order >= 1 and sheets >= 1 no mesh point is left defined in the
\* patches of two different sheets.
C4_BandsDoNotOverlap ==
    (InLoop /\ order >= 1 /\ sheets >= 1) =>
        \A p \in Mesh :
            LET D == DefinedIn(p)
            IN  \A a \in D : \A b \in D : patches[a].s = patches[b].s

\* two patches of different sheets, each with a defined point
C4_Witness ==
    /\ InLoop /\ order >= 1 /\ Len(patches) >= 2
    /\ patches[1].s # patches[2].s
    /\ \E p \in Mesh : Defined(patches[1], p)
    /\ \E p \in Mesh : Defined(patches[2], p)

\* ------------------------------------------------------------------ C5
\* C5: a mesh point whose angle lies within gap of a sheet boundary 2pi*k,
\* k = 0..sheets, is NaN in every patch.
C5_GapPointsUndefined ==
    InLoop =>
        \A p \in Mesh :
            (\E k \in 0..sheets : NearBoundary(Theta(p), k)) => DefinedIn(p) = {}

\* the default call of order 2 after its loop: samples at theta = 0, exactly on
\* the inner boundary 2pi, and at theta_max = 2pi*order, next to drawn points
C5_Witness ==
    /\ LoopDone /\ DefaultCall /\ order = 2 /\ Len(patches) = 2
    /\ th[1] = 0
    /\ \E i \in 1..NTh : th[i] = TwoPi * Den
    /\ th[NTh] = TwoPi * order * Den
    /\ \A a \in 1..2 : \E p \in Mesh : Defined(patches[a], p)

\* ------------------------------------------------------------------ C6
\* theta lies within gap of some multiple of 2pi
NearMultiple(theta) == \E k \in Turns : NearBoundary(theta, k)

\* the positions in `patches` at which the patch of sheet s was submitted
PatchesOf(s) == {a \in 1..Len(patches) : patches[a].s = s}

\* the angle step theta_max / (NTh - 1) of a default call is smaller than the
\* width 2pi - 2*gap of a trimmed band
StepFitsBand == TwoPi * order < Den * (TwoPi - 2 * gap)

\* every sheet of the default call has exactly one patch
C6_OnePatchPerSheet ==
    /\ Len(patches) = order
    /\ \A s \in 0..(order - 1) : Cardinality(PatchesOf(s)) = 1

\* every mesh point away from the multiples of 2pi is drawn exactly once
C6_DrawnOnce ==
    \A p \in Mesh : ~NearMultiple(Theta(p)) => Cardinality(DefinedIn(p)) = 1

\* every patch has a defined point
C6_NoEmptyPatch ==
    \A a \in 1..Len(patches) : \E p \in Mesh : Defined(patches[a], p)

HeightLeq(h1, h2) ==
    h1.num + h1.off * Den * h1.den <= h2.num + h2.off * Den * h2.den

\* the (patch, mesh point) pairs that are drawn
Drawn == {x \in (1..Len(patches)) \X Mesh : Defined(patches[x[1]], x[2])}

\* in a finished default call of order ord, the sample at theta = n*pi is
\* defined in the patch of sheet s with height theta/ord + 0.03*s
C7_Example(ord, n, s) ==
    (DefaultCall /\ order = ord /\ LoopDone) =>
        \A p \in Mesh :
            2 * Theta(p) = n * TwoPi * Den =>
                \E a \in 1..Len(patches) :
                    /\ patches[a].s = s
                    /\ Defined(patches[a], p)
                    /\ patches[a].Hm[p] = [nan |-> FALSE, num |-> Theta(p),
                                           den |-> ord, off |-> Offset * s]

C8_Orders == <<2, 4, 8, 16>>
C8_Roots == <<1, 2, 3, 4>>

\* no call is running: every local of plot_riemann is unbound
FrameBlank ==
    /\ order = 0 /\ theta_max = 0 /\ sheets = 0 /\ title = NoTitle
    /\ r = <<>> /\ th = <<>> /\ X = <<>> /\ Y = <<>> /\ H = <<>>
    /\ sheet_idx = <<>> /\ ~fig.open /\ it = 0 /\ patches = <<>>

\* C8: run as a program, the driver calls plot_riemann four times, for order
\* 2, 4, 8, 16 in this order, with theta_max and sheets at their defaults and a
\* title of log2(order) = 1, 2, 3, 4 root symbols; a call starts only after
\* the previous one has returned, and no state of a call is visible to the next.
C8_DriverSequence ==
    mode = "main" =>
        /\ Len(calls) <= 4
        /\ \A k \in 1..Len(calls) :
              calls[k] = [order |-> C8_Orders[k], theta_max |-> None, sheets |-> None,
                          title |-> [roots |-> C8_Roots[k], order |-> C8_Orders[k]]]
        /\ Len(shown) <= Len(calls) /\ Len(calls) <= Len(shown) + 1
        /\ (pc \in {"idle", "done"} => Len(shown) = Len(calls) /\ FrameBlank)
        /\ (pc = "done" => Len(calls) = 4 /\ err = "none")
        /\ \A k \in 1..Len(shown) :
              /\ shown[k].window = C8_Orders[k]
              /\ shown[k].title = calls[k].title
              /\ Len(shown[k].patches) = C8_Orders[k]

\* the program has ended after its four calls
C8_Witness ==
    /\ mode = "main" /\ pc = "done" /\ Len(calls) = 4 /\ Len(shown) = 4
    /\ calls[4].title.roots = 4

\* ------------------------------------------------------------------ C9
\* C9: within a call with sheets >= 1 the patches are submitted in the order
\* sheets-1, sheets-2, ..., 0, exactly one per sheet index, also for a sheet
\* whose patch has no defined point, and the figure is displayed only after
\* the patch of sheet 0 has been submitted.
C9_DescendingPatches ==
    (InLoop /\ sheets >= 1) =>
        /\ Len(patches) <= sheets
        /\ \A a \in 1..Len(patches) : patches[a].s = sheets - a
        /\ (LoopDone => Len(patches) = sheets /\ patches[sheets].s = 0)
        /\ (pc = "loop" => Len(shown) = Len(calls) - 1)
        /\ (pc = "return" =>
               /\ Len(shown) = Len(calls)
               /\ shown[Len(shown)].patches = patches)

\* a displayed figure of three or more sheets, one of them without a defined
\* point and one of them with one
C9_Witness ==
    /\ pc = "return" /\ sheets >= 3 /\ Len(patches) = sheets
    /\ \E a \in 1..Len(patches) : \A p \in Mesh : ~Defined(patches[a], p)
    /\ \E a \in 1..Len(patches) : \E p \in Mesh : Defined(patches[a], p)

\* ------------------------------------------------------------------ C10
\* C10: with sheets >= 1 a mesh point is defined in the patch of sheet s if
\* and only if 2pi*s + gap < theta < 2pi*(s+1) - gap, whatever its sheet index;
\* a point with theta >= 2pi*sheets has a sheet index in [0, sheets) and is
\* undefined in every patch; the patch of a sheet s with 2pi*s + gap >=
\* theta_max has no defined point.
C10_DefinedIffInBand ==
    (InLoop /\ sheets >= 1) =>
        /\ \A a \in 1..Len(patches) : \A p \in Mesh :
              Defined(patches[a], p) <=> InBand(Theta(p), patches[a].s)
        /\ \A p \in Mesh :
              Theta(p) >= TwoPi * sheets * Den =>
                  /\ sheet_idx[p] \in 0..(sheets - 1)
                  /\ DefinedIn(p) = {}
        /\ \A a \in 1..Len(patches) :
              TwoPi * patches[a].s + gap >= theta_max =>
                  \A p \in Mesh : ~Defined(patches[a], p)

\* a finished call whose sweep exceeds 2pi*sheets: a point beyond the last
\* band, away from every boundary, classified into a sheet whose patch leaves
\* it undefined
C10_Witness ==
    /\ LoopDone /\ sheets >= 2 /\ theta_max > TwoPi * sheets
    /\ \E p \in Mesh : \E a \in 1..Len(patches) :
          /\ Theta(p) >= TwoPi * sheets * Den
          /\ ~NearMultiple(Theta(p))
          /\ patches[a].s = sheet_idx[p]
          /\ ~Defined(patches[a], p)

====
